---- MODULE Spec2Model ----
(***************************************************************************)
(* Double-submit-cookie CSRF guard (package csrf).                         *)
(*                                                                         *)
(* Strings that the guard compares (header values, cookie values, tokens)  *)
(* are sequences of byte values; method names, header names and bodies,    *)
(* which are only compared for equality with literals, are TLA+ strings.   *)
(***************************************************************************)
EXTENDS Integers, Sequences, FiniteSets, TLC

VARIABLES
    ds,            \* the DoubleSubmit value: [secure, err]; ds.next is fixed
    randSrc,       \* state of the process-wide random source
    randSrcMutex,  \* 0 when free, else the invocation holding it
    pc,            \* "idle" | "pending" (request in flight) | "served"
    req,           \* the request in flight / last served
    w0,            \* the response writer as handed to ServeHTTP
    w,             \* the response writer after ServeHTTP
    calls,         \* handler invocations made by the last ServeHTTP
    newToken,      \* ServeHTTP's local newToken of the last invocation
    client,        \* the browser: cookie jar and the header token each tab holds
    faithful,      \* history: has the client followed the echo protocol so far
    call,          \* test harness: the last call of a pure function
    test,          \* test harness: the state of TestGenerateToken
    inv            \* the concurrent invocations: each one's position and locals

vars == <<ds, randSrc, randSrcMutex, pc, req, w0, w, calls, newToken, client,
          faithful, call, test, inv>>

(***************************************************************************)
(* Constants of csrf.go                                                    *)
(***************************************************************************)
tokenLen == 32

headerName == "X-CSRF-Token"

expiration == 60

ErrInvalidToken == "invalid token"

StatusOK == 200

StatusForbidden == 403

letterIdxBits == 6

letterIdxMask == 2^letterIdxBits - 1

letterIdxMax == 63 \div letterIdxBits

\* len(letterBytes): a..z then A..Z
letterBytesLen == 52

\* letterBytes[idx], as a byte value
letterBytes(idx) == IF idx < 26 THEN 97 + idx ELSE 65 + (idx - 26)

(***************************************************************************)
(* The random source.  math/rand's generator is a deterministic, periodic  *)
(* stream of 63-bit values selected by the seed.  A 63-bit value is        *)
(* written as its 11 base-64 digits, least significant first (the last     *)
(* digit holds the top 3 bits), so that "cache & letterIdxMask" is the     *)
(* first digit and "cache >>= letterIdxBits" drops it.                     *)
(***************************************************************************)
RandStream ==
    << \* seed 1: every 6-bit slice is a letter index
       << <<0, 1, 2, 3, 4, 5, 6, 7, 8, 9, 0>>,
          <<10, 11, 12, 13, 14, 15, 16, 17, 18, 19, 1>>,
          <<20, 21, 22, 23, 24, 25, 26, 27, 28, 29, 2>>,
          <<30, 31, 32, 33, 34, 35, 36, 37, 38, 39, 3>>,
          <<40, 41, 42, 43, 44, 45, 46, 47, 48, 49, 4>> >>,
       \* seed 2: slices of 52..63 occur; the first two values differ but
       \* agree on their first four letter indices
       << <<51, 52, 63, 26, 25, 0, 51, 60, 1, 2, 7>>,
          <<51, 52, 63, 26, 25, 0, 51, 60, 3, 4, 1>>,
          <<50, 49, 48, 47, 46, 45, 44, 43, 42, 41, 5>>,
          <<63, 63, 63, 63, 63, 63, 63, 63, 63, 5, 3>>,
          <<7, 56, 33, 12, 52, 19, 0, 51, 27, 61, 6>> >> >>

Seeds == 1..Len(RandStream)

RandSrcStates == UNION {{[seed |-> s, pos |-> p] : p \in 0..(Len(RandStream[s]) - 1)} : s \in Seeds}

\* randSrc.Int63(): the value returned and the source's next state
Int63(src) ==
    [val |-> RandStream[src.seed][src.pos + 1],
     src |-> [src EXCEPT !.pos = (@ + 1) % Len(RandStream[src.seed])]]

\* cache & letterIdxMask
CacheAndMask(cache) == cache[1] % (letterIdxMask + 1)

\* cache >> letterIdxBits
CacheShift(cache) == Tail(cache) \o <<0>>

(***************************************************************************)
(* generateMathRandomBytes: the loop "for i, remain := n-1, letterIdxMax;  *)
(* i >= 0;".  b is 1-indexed here, so b[i] of the code is b[i + 1].        *)
(* ConsumeCache is the run of iterations that slice one cached value (up   *)
(* to remain = 0 or i < 0); RandLoop draws the next value between two runs.*)
(***************************************************************************)
\* variant: a slice of 52..63 is not discarded
RECURSIVE ConsumeCache_noDiscard(_, _, _, _)
ConsumeCache_noDiscard(b, i, remain, cache) ==
    IF i < 0 \/ remain = 0
    THEN [b |-> b, i |-> i, remain |-> remain, cache |-> cache]
    ELSE LET idx == CacheAndMask(cache)
         IN ConsumeCache_noDiscard([b EXCEPT ![i + 1] = letterBytes(idx)], i - 1,
                                   remain - 1, CacheShift(cache))

RECURSIVE ConsumeCache(_, _, _, _)
ConsumeCache(b, i, remain, cache) ==
    IF i < 0 \/ remain = 0
    THEN [b |-> b, i |-> i, remain |-> remain, cache |-> cache]
    ELSE LET idx == CacheAndMask(cache)
             hit == idx < letterBytesLen
         IN ConsumeCache(IF hit THEN [b EXCEPT ![i + 1] = letterBytes(idx)] ELSE b,
                         IF hit THEN i - 1 ELSE i,
                         remain - 1,
                         CacheShift(cache))

RECURSIVE RandLoop(_, _, _, _, _)
RandLoop(b, i, remain, cache, src) ==
    IF i < 0 THEN [b |-> b, src |-> src]
    ELSE LET d == IF remain = 0 THEN Int63(src) ELSE [val |-> cache, src |-> src]
             c == ConsumeCache(b, i, IF remain = 0 THEN letterIdxMax ELSE remain, d.val)
         IN RandLoop(c.b, c.i, c.remain, c.cache, d.src)

generateMathRandomBytes(n, src) ==
    LET d == Int63(src)
    IN RandLoop([k \in 1..n |-> 0], n - 1, letterIdxMax, d.val, d.src)

(***************************************************************************)
(* base64.URLEncoding.EncodeToString                                       *)
(***************************************************************************)
\* the URL-safe alphabet A-Z a-z 0-9 - _
encodeURL(i) ==
    IF i < 26 THEN 65 + i
    ELSE IF i < 52 THEN 97 + (i - 26)
    ELSE IF i < 62 THEN 48 + (i - 52)
    ELSE IF i = 62 THEN 45 ELSE 95

\* '='
StdPadding == 61

\* the k-th 6-bit group (k = 0..3) of the 24-bit value of the j-th 3-byte
\* block; bytes past the end of src count as 0
Sextet(src, j, k) ==
    LET at(m) == IF m <= Len(src) THEN src[m] ELSE 0
        val   == (at(3 * j + 1) * 65536) + (at(3 * j + 2) * 256) + at(3 * j + 3)
    IN (val \div (64 ^ (3 - k))) % 64

\* variant: RawURLEncoding, which leaves the padding out
EncodeToString_raw(src) ==
    LET full == Len(src) \div 3
        rest == Len(src) % 3
        n    == 4 * full + (IF rest = 0 THEN 0 ELSE rest + 1)
    IN [p \in 1..n |-> encodeURL(Sextet(src, (p - 1) \div 4, (p - 1) % 4))]

\* each 3-byte block gives 4 characters; a last block of 1 or 2 bytes gives 2 or
\* 3 characters and is padded to 4
EncodeToString(src) ==
    LET full == Len(src) \div 3
        rest == Len(src) % 3
        n    == 4 * (full + (IF rest = 0 THEN 0 ELSE 1))
    IN [p \in 1..n |->
           IF (p - 1) \div 4 = full /\ (p - 1) % 4 > rest
           THEN StdPadding
           ELSE encodeURL(Sextet(src, (p - 1) \div 4, (p - 1) % 4))]

\* generateToken: the token and the source's state afterwards
generateToken(length, src) ==
    LET g == generateMathRandomBytes(length, src)
    IN [token |-> EncodeToString(g.b), src |-> g.src]

\* generateToken(tokenLen), tabulated over the states of the source
NewTokenAt == [s \in RandSrcStates |-> generateToken(tokenLen, s)]

(***************************************************************************)
(* isEqual: subtle.ConstantTimeCompare(a, b) == 1                          *)
(***************************************************************************)
\* bit k of byte x
Bit(x, k) == (x \div (2 ^ k)) % 2

\* x ^ y on bytes
Xor(x, y) ==
    LET X(k) == ((Bit(x, k) + Bit(y, k)) % 2) * (2 ^ k)
    IN X(0) + X(1) + X(2) + X(3) + X(4) + X(5) + X(6) + X(7)

\* int((uint32(x^y) - 1) >> 31) for bytes x, y: the subtraction wraps around to
\* 2^32 - 1 (top bit 1) exactly when x^y = 0; otherwise it is below 2^8 (top bit 0)
ConstantTimeByteEq(x, y) ==
    LET d == Xor(x, y) - 1
    IN IF d < 0 THEN 1 ELSE 0

\* variant: the last byte is left out of the comparison
XorFold_skipLast(x, y) ==
    LET X(k) == (IF \E i \in 1..(Len(x) - 1) : Bit(x[i], k) # Bit(y[i], k) THEN 1 ELSE 0) * (2 ^ k)
    IN X(0) + X(1) + X(2) + X(3) + X(4) + X(5) + X(6) + X(7)

\* v after "for i := 0; i < len(x); i++ { v |= x[i] ^ y[i] }": bit k of v is set
\* exactly when it is set in some x[i] ^ y[i], that is when x[i] and y[i] differ
\* in bit k for some i
XorFold(x, y) ==
    LET X(k) == (IF \E i \in 1..Len(x) : Bit(x[i], k) # Bit(y[i], k) THEN 1 ELSE 0) * (2 ^ k)
    IN X(0) + X(1) + X(2) + X(3) + X(4) + X(5) + X(6) + X(7)

ConstantTimeCompare(x, y) ==
    IF Len(x) # Len(y) THEN 0
    ELSE ConstantTimeByteEq(XorFold(x, y), 0)

\* variant: only the lengths are compared
isEqual_lenOnly(a, b) == Len(a) = Len(b)

isEqual(a, b) == ConstantTimeCompare(a, b) = 1

(***************************************************************************)
(* isSafe                                                                  *)
(***************************************************************************)
\* variant: TRACE is forgotten
isSafe_noTrace(method) ==
    method = "GET" \/ method = "HEAD" \/ method = "OPTIONS"

\* variant: CONNECT is taken for a safe method
isSafe_connect(method) ==
    method = "GET" \/ method = "HEAD" \/ method = "OPTIONS" \/ method = "TRACE"
        \/ method = "CONNECT"

isSafe(method) ==
    method = "GET" \/ method = "HEAD" \/ method = "OPTIONS" \/ method = "TRACE"

(***************************************************************************)
(* Requests, response writers, handlers                                    *)
(***************************************************************************)
Absent == [present |-> FALSE, value |-> <<>>]

Present(v) == [present |-> TRUE, value |-> v]

\* r.Header.Get(headerName): "" when the header is absent
HeaderGet(r) == IF r.Header.present THEN r.Header.value ELSE <<>>

HeaderKeys == {headerName, "Set-Cookie", "Vary", "Content-Type", "X-Content-Type-Options"}

\* httptest.NewRecorder(), with the Vary values an outer handler already added
NewRecorder(vary) ==
    [Header |-> [k \in HeaderKeys |-> IF k = "Vary" THEN vary ELSE <<>>],
     Code   |-> 0,
     Body   |-> <<>>]

\* w.Header().Set(key, value)
HeaderSet(wr, key, value) == [wr EXCEPT !.Header[key] = <<value>>]

\* variant: Add overwrites the values already present
HeaderAdd_replace(wr, key, value) == [wr EXCEPT !.Header[key] = <<value>>]

\* w.Header().Add(key, value)
HeaderAdd(wr, key, value) == [wr EXCEPT !.Header[key] = Append(@, value)]

\* http.SetCookie(w, cookie)
SetCookie(wr, cookie) == HeaderAdd(wr, "Set-Cookie", cookie)

\* w.WriteHeader(code): only the first call counts
WriteHeader(wr, code) == IF wr.Code = 0 THEN [wr EXCEPT !.Code = code] ELSE wr

\* io.WriteString(w, s): an implicit WriteHeader(200) first
WriteString(wr, s) == [WriteHeader(wr, StatusOK) EXCEPT !.Body = Append(@, s)]

\* the downstream handler of the tests (getTestHandler)
testHandlerOutput == "test handler output"

NextServeHTTP(wr) == WriteString(wr, testHandlerOutput)

\* getTestErrorHandler(output)
errHandlerOutput == "err handler output"

TestErrorHandler(wr) == WriteString(WriteHeader(wr, StatusForbidden), errHandlerOutput)

\* unauthorizedHandler: http.Error(w, "Forbidden - " + reason, 403), which sets
\* the content type, writes the status and prints the message as one line
unauthorizedHandler(wr, reason) ==
    LET w1 == HeaderSet(wr, "Content-Type", "text/plain; charset=utf-8")
        w2 == HeaderSet(w1, "X-Content-Type-Options", "nosniff")
        w3 == WriteHeader(w2, StatusForbidden)
    IN WriteString(w3, "Forbidden" \o " - " \o reason \o "\n")

ErrorHandlers == {"unauthorizedHandler", "TestErrorHandler"}

\* variant: the default handler is called whatever ds.err holds
CallErr_default(d, wr, reason) == unauthorizedHandler(wr, reason)

\* ds.err(w, r, reason)
CallErr(d, wr, reason) ==
    IF d.err = "unauthorizedHandler" THEN unauthorizedHandler(wr, reason)
    ELSE TestErrorHandler(wr)

\* New(h)
New == [secure |-> FALSE, err |-> "unauthorizedHandler"]

(***************************************************************************)
(* DoubleSubmit.ServeHTTP, as a function of the guard, the source's state, *)
(* the request and the response writer: the writer and the source's state  *)
(* afterwards, the handler calls made, and the local newToken.             *)
(***************************************************************************)
\* variant: the token is written to the response before the error handler runs
Reject_rotates(d, wr, g) ==
    LET w1 == HeaderSet(wr, headerName, g.token)
        w2 == SetCookie(w1, [Name     |-> headerName,
                             Value    |-> g.token,
                             MaxAge   |-> expiration * 60,
                             HttpOnly |-> TRUE,
                             Secure   |-> d.secure])
    IN [w        |-> CallErr(d, w2, ErrInvalidToken),
        src      |-> g.src,
        calls    |-> << [fn |-> "err", h |-> d.err, reason |-> ErrInvalidToken] >>,
        newToken |-> g.token]

\* variant: Vary is added before validation
Reject_vary(d, wr, g) ==
    [w        |-> CallErr(d, HeaderAdd(wr, "Vary", "Cookie"), ErrInvalidToken),
     src      |-> g.src,
     calls    |-> << [fn |-> "err", h |-> d.err, reason |-> ErrInvalidToken] >>,
     newToken |-> g.token]

Reject(d, wr, g) ==
    [w        |-> CallErr(d, wr, ErrInvalidToken),
     src      |-> g.src,
     calls    |-> << [fn |-> "err", h |-> d.err, reason |-> ErrInvalidToken] >>,
     newToken |-> g.token]

\* variant: the cookie is not refreshed
Forward_noCookie(d, wr, g) ==
    LET w1 == HeaderSet(wr, headerName, g.token)
        w3 == HeaderAdd(w1, "Vary", "Cookie")
    IN [w        |-> NextServeHTTP(w3),
        src      |-> g.src,
        calls    |-> << [fn |-> "next", h |-> "next", reason |-> ""] >>,
        newToken |-> g.token]

Forward(d, wr, g) ==
    LET w1 == HeaderSet(wr, headerName, g.token)
        w2 == SetCookie(w1, [Name     |-> headerName,
                             Value    |-> g.token,
                             MaxAge   |-> expiration * 60,
                             HttpOnly |-> TRUE,
                             Secure   |-> d.secure])
        w3 == HeaderAdd(w2, "Vary", "Cookie")
    IN [w        |-> NextServeHTTP(w3),
        src      |-> g.src,
        calls    |-> << [fn |-> "next", h |-> "next", reason |-> ""] >>,
        newToken |-> g.token]

\* variant: header and cookie must be present but are not compared
ServeHTTPResult_noCompare(d, src, r, wr) ==
    LET g == NewTokenAt[src]
    IN IF ~isSafe(r.Method)
       THEN LET headerToken == HeaderGet(r)
            IN IF headerToken = <<>> \/ ~r.Cookie.present
               THEN Reject(d, wr, g)
               ELSE Forward(d, wr, g)
       ELSE Forward(d, wr, g)

\* variant: the header is compared with the token just generated
ServeHTTPResult_cmpNew(d, src, r, wr) ==
    LET g == NewTokenAt[src]
    IN IF ~isSafe(r.Method)
       THEN LET headerToken == HeaderGet(r)
            IN IF headerToken = <<>> \/ ~r.Cookie.present
               THEN Reject(d, wr, g)
               ELSE IF ~isEqual(headerToken, g.token)
                    THEN Reject(d, wr, g)
                    ELSE Forward(d, wr, g)
       ELSE Forward(d, wr, g)

\* variant: validation only when the guard is in secure mode
ServeHTTPResult_secureOnly(d, src, r, wr) ==
    LET g == NewTokenAt[src]
    IN IF d.secure /\ ~isSafe(r.Method)
       THEN LET headerToken == HeaderGet(r)
            IN IF headerToken = <<>> \/ ~r.Cookie.present
               THEN Reject(d, wr, g)
               ELSE IF ~isEqual(headerToken, r.Cookie.value)
                    THEN Reject(d, wr, g)
                    ELSE Forward(d, wr, g)
       ELSE Forward(d, wr, g)

\* ServeHTTP from line 62 on, generateToken having returned g
Validate(d, g, r, wr) ==
    IF ~isSafe(r.Method)
    THEN LET headerToken == HeaderGet(r)
         IN IF headerToken = <<>> \/ ~r.Cookie.present
            THEN Reject(d, wr, g)
            ELSE IF ~isEqual(headerToken, r.Cookie.value)
                 THEN Reject(d, wr, g)
                 ELSE Forward(d, wr, g)
    ELSE Forward(d, wr, g)

ServeHTTPResult(d, src, r, wr) == Validate(d, NewTokenAt[src], r, wr)

(***************************************************************************)
(* The client side: one browser, whose tabs share the cookie jar and each  *)
(* hold the header token of the last response they received.               *)
(***************************************************************************)
Tabs == {"A", "B"}

Methods == {"GET", "HEAD", "OPTIONS", "TRACE", "POST", "DELETE", "get"}

\* values a client may send that the guard did not issue
ForgedA == <<102, 97>>

ForgedB == <<102, 98>>

HeaderChoices(t) == {Absent, Present(<<>>), Present(ForgedA), client.hdr[t]}

CookieChoices == {Absent, Present(<<>>), Present(ForgedA), Present(ForgedB), client.jar}

PreVary == {<<>>, <<"Accept-Encoding">>}

NoRequest == [Method |-> "", Header |-> Absent, Cookie |-> Absent, tab |-> "A"]

\* the cookie named name among the Set-Cookie values of a response
RECURSIVE FindCookie(_, _)
FindCookie(cs, name) ==
    IF cs = <<>> THEN Absent
    ELSE IF cs[Len(cs)].Name = name THEN Present(cs[Len(cs)].Value)
    ELSE FindCookie(SubSeq(cs, 1, Len(cs) - 1), name)

(***************************************************************************)
(* History of the client's conduct.  "start": no request yet; "yes": the   *)
(* first request was safe and every unsafe request since presented, in     *)
(* header and cookie, the token of the response just before it; "stale":   *)
(* as "yes", but the response just before carried no token; "no":          *)
(* otherwise.  While the history is "yes" the response just before carried *)
(* a token, which is the value the browser's cookie jar holds.             *)
(***************************************************************************)
SafeMethods == {"GET", "HEAD", "OPTIONS", "TRACE"}

FaithfulAfter(m, h, c) ==
    IF m \in SafeMethods
    THEN (IF faithful = "no" THEN "no" ELSE "yes")
    ELSE IF /\ faithful = "yes"
            /\ h.present /\ h = client.jar
            /\ c.present /\ c = client.jar
         THEN "yes" ELSE "no"

NoCall == [fn |-> "none"]

NoTest == [li |-> 0, tokens |-> <<>>, bytes |-> <<>>]

\* the goroutines that may run an invocation, none of which has started
Invocations == {1, 2}

IdleInvocation ==
    [at |-> "idle", kind |-> "none", n |-> 0, b |-> <<>>, i |-> 0, remain |-> 0,
     cache |-> <<>>, r |-> NoRequest, wr |-> NewRecorder(<<>>), token |-> <<>>,
     calls |-> <<>>, ds0 |-> New, seen |-> {}, arg |-> NewRecorder(<<>>),
     draws |-> 0]

NoInvocations == [p \in Invocations |-> IdleInvocation]

(***************************************************************************)
(* Actions                                                                 *)
(***************************************************************************)
Init ==
    /\ ds = New
    /\ randSrc \in {[seed |-> s, pos |-> 0] : s \in Seeds}
    /\ randSrcMutex = 0
    /\ pc = "idle"
    /\ req = NoRequest
    /\ w0 = NewRecorder(<<>>)
    /\ w = NewRecorder(<<>>)
    /\ calls = <<>>
    /\ newToken = <<>>
    /\ client = [jar |-> Absent, hdr |-> [t \in Tabs |-> Absent]]
    /\ faithful = "start"
    /\ call = NoCall
    /\ test = NoTest
    /\ inv = NoInvocations

\* ds.SetSecure(st), between two invocations of ServeHTTP
SetSecure(st) ==
    /\ pc = "idle"
    /\ ds' = [ds EXCEPT !.secure = st]
    /\ UNCHANGED <<inv, randSrc, randSrcMutex, pc, req, w0, w, calls, newToken, client,
                   faithful, call, test>>

\* ds.SetErrHandler(h), between two invocations of ServeHTTP
SetErrHandler(h) ==
    /\ pc = "idle"
    /\ ds' = [ds EXCEPT !.err = h]
    /\ UNCHANGED <<inv, randSrc, randSrcMutex, pc, req, w0, w, calls, newToken, client,
                   faithful, call, test>>

\* tab t of the client sends a request
Request(t, m, h, c, vary) ==
    /\ pc = "idle"
    /\ pc' = "pending"
    /\ req' = [Method |-> m, Header |-> h, Cookie |-> c, tab |-> t]
    /\ w0' = NewRecorder(vary)
    /\ w' = NewRecorder(vary)
    /\ calls' = <<>>
    /\ newToken' = <<>>
    /\ faithful' = FaithfulAfter(m, h, c)
    /\ UNCHANGED <<inv, ds, randSrc, randSrcMutex, client, call, test>>

\* ds.ServeHTTP(w, r)
ServeHTTP ==
    /\ pc = "pending"
    /\ randSrcMutex = 0
    /\ LET res == ServeHTTPResult(ds, randSrc, req, w0)
       IN /\ w' = res.w
          /\ randSrc' = res.src
          /\ calls' = res.calls
          /\ newToken' = res.newToken
    /\ pc' = "served"
    /\ UNCHANGED <<inv, ds, randSrcMutex, req, w0, client, faithful, call, test>>

\* the client receives the response: the browser stores the cookie, the tab
\* keeps the header token
Response ==
    /\ pc = "served"
    /\ LET c == FindCookie(w.Header["Set-Cookie"], headerName)
           h == w.Header[headerName]
       IN client' = [jar |-> IF c.present THEN c ELSE client.jar,
                     hdr |-> [client.hdr EXCEPT ![req.tab] =
                                 IF h # <<>> THEN Present(h[1]) ELSE @]]
    /\ pc' = "idle"
    /\ req' = NoRequest
    /\ w0' = NewRecorder(<<>>)
    /\ w' = NewRecorder(<<>>)
    /\ calls' = <<>>
    /\ newToken' = <<>>
    /\ faithful' = IF faithful = "yes" /\ w.Header[headerName] = <<>> THEN "stale" ELSE faithful
    /\ UNCHANGED <<inv, ds, randSrc, randSrcMutex, call, test>>

Next ==
    \/ \E st \in BOOLEAN : SetSecure(st)
    \/ \E h \in ErrorHandlers : SetErrHandler(h)
    \/ /\ pc = "idle"
       /\ \E m \in Methods, h \in HeaderChoices("A"), c \in CookieChoices, v \in PreVary :
              Request("A", m, h, c, v)
    \/ ServeHTTP
    \/ Response

Spec == Init /\ [][Next]_vars

(***************************************************************************)
(* Two tabs of one browser.  A tab sends the header token it holds and the *)
(* browser attaches the cookie of the shared jar.                          *)
(***************************************************************************)
TabMethods == {"GET", "POST"}

TabRequest(t, m) == Request(t, m, client.hdr[t], client.jar, <<>>)

NextTabs ==
    \/ /\ pc = "idle"
       /\ \E t \in Tabs, m \in TabMethods : TabRequest(t, m)
    \/ ServeHTTP
    \/ Response

SpecTabs == Init /\ [][NextTabs]_vars

(***************************************************************************)
(* The table tests of the pure functions (TestIsEqual, TestIsSafe): a call *)
(* on inputs drawn from bounded sets.                                      *)
(***************************************************************************)
MaxStrLen == 2

TestBytes == {0, 1, 97, 255}

\* a token with its last byte changed
Tampered(tok) == [tok EXCEPT ![Len(tok)] = IF @ = 65 THEN 66 ELSE 65]

TestStrings ==
    UNION {[1..k -> TestBytes] : k \in 0..MaxStrLen}
        \cup {NewTokenAt[s].token : s \in RandSrcStates}
        \cup {Tampered(NewTokenAt[[seed |-> 1, pos |-> 0]].token)}

TestMethods ==
    {"GET", "HEAD", "TRACE", "OPTIONS", "POST", "PUT", "DELETE", "CONNECT", "PATCH",
     "mik23", "", "   ", "___", "POWER", "get", "head", "options", "trace", "Get",
     "GET ", " GET", "GETS"}

CallIsEqual(a, b) ==
    /\ call.fn = "none"
    /\ call' = [fn |-> "isEqual", a |-> a, b |-> b, ret |-> isEqual(a, b)]
    /\ UNCHANGED <<inv, ds, randSrc, randSrcMutex, pc, req, w0, w, calls, newToken, client,
                   faithful, test>>

CallIsSafe(m) ==
    /\ call.fn = "none"
    /\ call' = [fn |-> "isSafe", method |-> m, ret |-> isSafe(m)]
    /\ UNCHANGED <<inv, ds, randSrc, randSrcMutex, pc, req, w0, w, calls, newToken, client,
                   faithful, test>>

\* the test case ends; the next one may start
Return ==
    /\ call.fn # "none"
    /\ call' = NoCall
    /\ UNCHANGED <<inv, ds, randSrc, randSrcMutex, pc, req, w0, w, calls, newToken, client,
                   faithful, test>>

NextFn ==
    \/ /\ call.fn = "none"
       /\ \E a \in TestStrings, b \in TestStrings : CallIsEqual(a, b)
    \/ /\ call.fn = "none"
       /\ \E m \in TestMethods : CallIsSafe(m)
    \/ Return

SpecFn == Init /\ [][NextFn]_vars

(***************************************************************************)
(* TestGenerateToken: for each length in turn, N calls of generateToken.   *)
(* test.bytes keeps, beside each token, the bytes it encodes.              *)
(***************************************************************************)
TestLengths == <<4, 8, 16, 32, 64, 128>>

N == 20

\* the outer loop enters its next iteration: tokens := []string{}
TestNextLength ==
    /\ test.li < Len(TestLengths)
    /\ test.li = 0 \/ Len(test.tokens) = N
    /\ test' = [li |-> test.li + 1, tokens |-> <<>>, bytes |-> <<>>]
    /\ UNCHANGED <<inv, ds, randSrc, randSrcMutex, pc, req, w0, w, calls, newToken, client,
                   faithful, call>>

\* one iteration of the inner loop: token := generateToken(length)
TestGenerate ==
    /\ test.li >= 1
    /\ Len(test.tokens) < N
    /\ randSrcMutex = 0
    /\ LET g == generateToken(TestLengths[test.li], randSrc)
       IN /\ test' = [test EXCEPT
                        !.tokens = Append(@, g.token),
                        !.bytes  = Append(@, generateMathRandomBytes(TestLengths[test.li], randSrc).b)]
          /\ randSrc' = g.src
    /\ UNCHANGED <<inv, ds, randSrcMutex, pc, req, w0, w, calls, newToken, client,
                   faithful, call>>

NextTok == TestNextLength \/ TestGenerate

SpecTok == Init /\ [][NextTok]_vars

(***************************************************************************)
(* Functional options (options.go).  An Option is a function on the guard; *)
(* an option value is the name of the option function and its argument,    *)
(* and applying it runs the body of the function it names.                 *)
(***************************************************************************)
\* the zero value of the guard's opts
ZeroOptions ==
    [MaxAge |-> 0, Domain |-> "", Secure |-> FALSE, ErrHandler |-> "nil",
     RequestHeader |-> "", CookieName |-> ""]

\* variant: the age is stored as given, in minutes
MaxAge_minutes(age, d) == [d EXCEPT !.opts.MaxAge = age]

MaxAge(age, d) == [d EXCEPT !.opts.MaxAge = age * 60]

Domain(domain, d) == [d EXCEPT !.opts.Domain = domain]

Secure(sec, d) == [d EXCEPT !.opts.Secure = sec]

ErrHandler(h, d) == [d EXCEPT !.opts.ErrHandler = h]

RequestHeader(header, d) == [d EXCEPT !.opts.RequestHeader = header]

\* variant: the name is stored in the field of the header name
CookieName_header(name, d) == [d EXCEPT !.opts.RequestHeader = name]

CookieName(name, d) == [d EXCEPT !.opts.CookieName = name]

\* option(ds)
ApplyOption(o, d) ==
    CASE o.name = "MaxAge"        -> MaxAge(o.arg, d)
      [] o.name = "Domain"        -> Domain(o.arg, d)
      [] o.name = "Secure"        -> Secure(o.arg, d)
      [] o.name = "ErrHandler"    -> ErrHandler(o.arg, d)
      [] o.name = "RequestHeader" -> RequestHeader(o.arg, d)
      [] o.name = "CookieName"    -> CookieName(o.arg, d)

\* for _, option := range opts { option(ds) }
RECURSIVE ApplyOptions(_, _)
ApplyOptions(d, os) ==
    IF os = <<>> THEN d
    ELSE ApplyOptions(ApplyOption(Head(os), d), Tail(os))

\* variant: Secure is left at its zero value
parseOptions_zeroSecure(os) ==
    ApplyOptions([h |-> "next", opts |-> ZeroOptions], os)

\* parseOptions(h, opts...), for the one downstream handler of the tests
parseOptions(os) ==
    ApplyOptions([h |-> "next", opts |-> [ZeroOptions EXCEPT !.Secure = TRUE]], os)

Opt(name, arg) == [name |-> name, arg |-> arg]

\* the option values of the tests, and a second value for each
AllOptions ==
    {Opt("MaxAge", 30), Opt("MaxAge", 35),
     Opt("Domain", "example.io"), Opt("Domain", "domainoverride"),
     Opt("Secure", FALSE), Opt("Secure", TRUE),
     Opt("ErrHandler", "unauthorizedHandler"), Opt("ErrHandler", "TestErrorHandler"),
     Opt("RequestHeader", "X-CSRF-Token"), Opt("RequestHeader", "X-Custom"),
     Opt("CookieName", "X-CSRF-Token"), Opt("CookieName", "nameoverride")}

MaxOpts == 2

OptionLists == UNION {[1..n -> AllOptions] : n \in 0..MaxOpts}

\* cs := parseOptions(h, testOpts...)
CallParseOptions(os) ==
    /\ call.fn = "none"
    /\ call' = [fn |-> "parseOptions", opts |-> os, ret |-> parseOptions(os)]
    /\ UNCHANGED <<inv, ds, randSrc, randSrcMutex, pc, req, w0, w, calls, newToken, client,
                   faithful, test>>

NextParse ==
    \/ /\ call.fn = "none"
       /\ \E os \in OptionLists : CallParseOptions(os)
    \/ Return

SpecParse == Init /\ [][NextParse]_vars

(***************************************************************************)
(* The guard built from options: Middleware(opts...)(h).  It completes the *)
(* fields parseOptions left at their zero value and serves requests with   *)
(* the configured names, domain and age.                                   *)
(***************************************************************************)
Middleware(os) ==
    LET d == parseOptions(os)
    IN [d EXCEPT
          !.opts.MaxAge        = IF @ = 0 THEN expiration * 60 ELSE @,
          !.opts.ErrHandler    = IF @ = "nil" THEN "unauthorizedHandler" ELSE @,
          !.opts.RequestHeader = IF @ = "" THEN headerName ELSE @,
          !.opts.CookieName    = IF @ = "" THEN headerName ELSE @]

HeaderNames == {headerName, "X-Custom"}

CookieNames == {headerName, "nameoverride"}

\* httptest.NewRecorder(), for responses that may carry any of the header names
NewRecorderOpt(vary) ==
    [Header |-> [k \in HeaderKeys \cup HeaderNames |-> IF k = "Vary" THEN vary ELSE <<>>],
     Code   |-> 0,
     Body   |-> <<>>]

RejectOpt(d, src, wr) ==
    [w        |-> CallErr([err |-> d.opts.ErrHandler], wr, ErrInvalidToken),
     src      |-> src,
     calls    |-> << [fn |-> "err", h |-> d.opts.ErrHandler, reason |-> ErrInvalidToken] >>,
     newToken |-> <<>>]

ForwardOpt(d, src, wr) ==
    LET g  == NewTokenAt[src]
        w1 == HeaderSet(wr, d.opts.RequestHeader, g.token)
        w2 == SetCookie(w1, [Name     |-> d.opts.CookieName,
                             Value    |-> g.token,
                             MaxAge   |-> d.opts.MaxAge,
                             HttpOnly |-> TRUE,
                             Secure   |-> d.opts.Secure,
                             Domain   |-> d.opts.Domain])
        w3 == HeaderAdd(w2, "Vary", "Cookie")
    IN [w        |-> NextServeHTTP(w3),
        src      |-> g.src,
        calls    |-> << [fn |-> "next", h |-> "next", reason |-> ""] >>,
        newToken |-> g.token]

ServeHTTPOptResult(d, src, r, wr) ==
    IF ~isSafe(r.Method)
    THEN LET header      == r.Header[d.opts.RequestHeader]
             headerToken == IF header.present THEN header.value ELSE <<>>
             cookie      == r.Cookie[d.opts.CookieName]
         IN IF headerToken = <<>> \/ ~cookie.present
            THEN RejectOpt(d, src, wr)
            ELSE IF ~isEqual(headerToken, cookie.value)
                 THEN RejectOpt(d, src, wr)
                 ELSE ForwardOpt(d, src, wr)
    ELSE ForwardOpt(d, src, wr)

\* the configurations of the tests: Middleware(), TestCookieOptions,
\* TestOptions, and one with each of the remaining overrides
CookieOptionsConfig ==
    << Opt("CookieName", "nameoverride"), Opt("Secure", FALSE),
       Opt("Domain", "domainoverride"), Opt("MaxAge", 35) >>

MiddlewareConfigs ==
    { <<>>,
      CookieOptionsConfig,
      << Opt("MaxAge", 30), Opt("Domain", "example.io"), Opt("Secure", FALSE),
         Opt("RequestHeader", "X-CSRF-Token"), Opt("ErrHandler", "unauthorizedHandler"),
         Opt("CookieName", "X-CSRF-Token") >>,
      << Opt("RequestHeader", "X-Custom") >>,
      << Opt("ErrHandler", "TestErrorHandler"), Opt("Secure", TRUE) >> }

\* the setter calls made on a guard built by New
SetterLists ==
    { <<>>, << Opt("Secure", TRUE) >>, << Opt("Secure", FALSE) >>,
      << Opt("ErrHandler", "TestErrorHandler") >>,
      << Opt("Secure", TRUE), Opt("Secure", FALSE) >> }

\* ds.SetSecure(st) / ds.SetErrHandler(h) on a guard built by New
RECURSIVE ApplySetters(_, _)
ApplySetters(d, sets) ==
    IF sets = <<>> THEN d
    ELSE ApplySetters(IF Head(sets).name = "Secure"
                      THEN [d EXCEPT !.secure = Head(sets).arg]
                      ELSE [d EXCEPT !.err = Head(sets).arg],
                      Tail(sets))

InitOpt ==
    /\ ds = New
    /\ randSrc \in {[seed |-> s, pos |-> 0] : s \in Seeds}
    /\ randSrcMutex = 0
    /\ pc = "idle"
    /\ req = NoRequest
    /\ w0 = NewRecorder(<<>>)
    /\ w = NewRecorder(<<>>)
    /\ calls = <<>>
    /\ newToken = <<>>
    /\ client = [jar |-> Absent, hdr |-> [t \in Tabs |-> Absent]]
    /\ faithful = "start"
    /\ call = [fn |-> "New", opts |-> <<>>]
    /\ test = NoTest
    /\ inv = NoInvocations

\* ds := New(h), followed by the setter calls sets
ConstructNew(sets) ==
    /\ pc = "idle"
    /\ ds' = ApplySetters(New, sets)
    /\ call' = [fn |-> "New", opts |-> sets]
    /\ UNCHANGED <<inv, randSrc, randSrcMutex, pc, req, w0, w, calls, newToken, client,
                   faithful, test>>

\* p := Middleware(os...)(s)
ConstructMiddleware(os) ==
    /\ pc = "idle"
    /\ ds' = Middleware(os)
    /\ call' = [fn |-> "Middleware", opts |-> os]
    /\ UNCHANGED <<inv, randSrc, randSrcMutex, pc, req, w0, w, calls, newToken, client,
                   faithful, test>>

\* a request carrying value h under header name hn and value c under cookie name cn
RequestOpt(m, hn, h, cn, c, vary) ==
    /\ pc = "idle"
    /\ pc' = "pending"
    /\ req' = [Method |-> m,
               Header |-> [n \in HeaderNames |-> IF n = hn THEN h ELSE Absent],
               Cookie |-> [n \in CookieNames |-> IF n = cn THEN c ELSE Absent],
               tab    |-> "A"]
    /\ w0' = NewRecorderOpt(vary)
    /\ w' = NewRecorderOpt(vary)
    /\ calls' = <<>>
    /\ newToken' = <<>>
    /\ UNCHANGED <<inv, ds, randSrc, randSrcMutex, client, faithful, call, test>>

\* ServeHTTP of a guard built by New: it reads the header and the cookie named
\* headerName
ServeNew ==
    /\ pc = "pending"
    /\ call.fn = "New"
    /\ LET r   == [Method |-> req.Method, Header |-> req.Header[headerName],
                   Cookie |-> req.Cookie[headerName]]
           res == ServeHTTPResult(ds, randSrc, r, w0)
       IN /\ w' = res.w
          /\ randSrc' = res.src
          /\ calls' = res.calls
          /\ newToken' = res.newToken
    /\ pc' = "served"
    /\ UNCHANGED <<inv, ds, randSrcMutex, req, w0, client, faithful, call, test>>

\* ServeHTTP of a guard built by Middleware
ServeOpt ==
    /\ pc = "pending"
    /\ call.fn = "Middleware"
    /\ LET res == ServeHTTPOptResult(ds, randSrc, req, w0)
       IN /\ w' = res.w
          /\ randSrc' = res.src
          /\ calls' = res.calls
          /\ newToken' = res.newToken
    /\ pc' = "served"
    /\ UNCHANGED <<inv, ds, randSrcMutex, req, w0, client, faithful, call, test>>

\* the test reads the response
ResponseOpt ==
    /\ pc = "served"
    /\ pc' = "idle"
    /\ req' = NoRequest
    /\ w0' = NewRecorder(<<>>)
    /\ w' = NewRecorder(<<>>)
    /\ calls' = <<>>
    /\ newToken' = <<>>
    /\ UNCHANGED <<inv, ds, randSrc, randSrcMutex, client, faithful, call, test>>

NextOpt ==
    \/ /\ pc = "idle"
       /\ \E sets \in SetterLists : ConstructNew(sets)
    \/ /\ pc = "idle"
       /\ \E os \in MiddlewareConfigs : ConstructMiddleware(os)
    \/ /\ pc = "idle"
       /\ \E m \in TabMethods, hn \in HeaderNames, h \in {Absent, Present(ForgedA)},
             cn \in CookieNames, c \in {Absent, Present(ForgedA), Present(ForgedB)},
             v \in PreVary :
              RequestOpt(m, hn, h, cn, c, v)
    \/ ServeNew
    \/ ServeOpt
    \/ ResponseOpt

SpecOpt == InitOpt /\ [][NextOpt]_vars

(***************************************************************************)
(* Concurrent calls of generateToken.  Each goroutine runs                 *)
(* generateMathRandomBytes step by step:                                   *)
(*   "lock"    before randSrcMutex.Lock()                                  *)
(*   "draw"    the mutex held, before randSrc.Int63()                      *)
(*   "unlock"  the value drawn, before randSrcMutex.Unlock()               *)
(*   "fill"    the iterations of the loop that slice the cached value      *)
(*   "done"    returned                                                    *)
(* draws counts the values the call has drawn.                             *)
(***************************************************************************)
MaxGen == 4

GenLengths == 0..MaxGen

\* variant: the array made is never empty
MakeBytes_nonEmpty(n) == [k \in 1..(IF n = 0 THEN 1 ELSE n) |-> 0]

\* b := make([]byte, n)
MakeBytes(n) == [k \in 1..n |-> 0]

\* a goroutine calls generateToken(n)
StartGenerate(p, n) ==
    /\ inv[p].at = "idle"
    /\ inv' = [inv EXCEPT ![p] =
                  [IdleInvocation EXCEPT
                      !.at = "lock", !.kind = "generateToken", !.n = n,
                      !.b = MakeBytes(n), !.i = n - 1]]
    /\ UNCHANGED <<ds, randSrc, randSrcMutex, pc, req, w0, w, calls, newToken, client,
                   faithful, call, test>>

\* variant: Lock does not wait for the mutex to be free
Lock_noWait(p) ==
    /\ inv[p].at = "lock"
    /\ randSrcMutex' = p
    /\ inv' = [inv EXCEPT ![p].at = "draw"]
    /\ UNCHANGED <<ds, randSrc, pc, req, w0, w, calls, newToken, client,
                   faithful, call, test>>

\* randSrcMutex.Lock()
Lock(p) ==
    /\ inv[p].at = "lock"
    /\ randSrcMutex = 0
    /\ randSrcMutex' = p
    /\ inv' = [inv EXCEPT ![p].at = "draw"]
    /\ UNCHANGED <<ds, randSrc, pc, req, w0, w, calls, newToken, client,
                   faithful, call, test>>

\* cache = randSrc.Int63()
Draw(p) ==
    /\ inv[p].at = "draw"
    /\ LET d == Int63(randSrc)
       IN /\ randSrc' = d.src
          /\ inv' = [inv EXCEPT ![p].at = "unlock", ![p].cache = d.val,
                                ![p].draws = @ + 1]
    /\ UNCHANGED <<ds, randSrcMutex, pc, req, w0, w, calls, newToken, client,
                   faithful, call, test>>

\* variant: the mutex is not released before the value drawn is sliced
Unlock_keepLock(p) ==
    /\ inv[p].at = "unlock"
    /\ inv' = [inv EXCEPT ![p].at = "fill", ![p].remain = letterIdxMax]
    /\ UNCHANGED <<ds, randSrc, randSrcMutex, pc, req, w0, w, calls, newToken, client,
                   faithful, call, test>>

\* variant: a call for no bytes goes on without releasing the mutex
Unlock_notWhenEmpty(p) ==
    /\ inv[p].at = "unlock"
    /\ randSrcMutex' = IF inv[p].n = 0 THEN randSrcMutex ELSE 0
    /\ inv' = [inv EXCEPT ![p].at = "fill", ![p].remain = letterIdxMax]
    /\ UNCHANGED <<ds, randSrc, pc, req, w0, w, calls, newToken, client,
                   faithful, call, test>>

\* variant: the eleventh slice, the top three bits, is used as well
Unlock_elevenSlices(p) ==
    /\ inv[p].at = "unlock"
    /\ randSrcMutex' = 0
    /\ inv' = [inv EXCEPT ![p].at = "fill", ![p].remain = letterIdxMax + 1]
    /\ UNCHANGED <<ds, randSrc, pc, req, w0, w, calls, newToken, client,
                   faithful, call, test>>

\* randSrcMutex.Unlock(); then remain = letterIdxMax, on entering the loop or
\* inside it
Unlock(p) ==
    /\ inv[p].at = "unlock"
    /\ randSrcMutex' = 0
    /\ inv' = [inv EXCEPT ![p].at = "fill", ![p].remain = letterIdxMax]
    /\ UNCHANGED <<ds, randSrc, pc, req, w0, w, calls, newToken, client,
                   faithful, call, test>>

\* the iterations of the loop up to remain == 0 or i < 0; when i < 0 the loop
\* ends, generateMathRandomBytes returns b and generateToken encodes it
Fill(p) ==
    /\ inv[p].at = "fill"
    /\ LET c == ConsumeCache(inv[p].b, inv[p].i, inv[p].remain, inv[p].cache)
       IN inv' = [inv EXCEPT
                     ![p].b = c.b, ![p].i = c.i, ![p].remain = c.remain,
                     ![p].cache = c.cache,
                     ![p].token = IF c.i < 0 THEN EncodeToString(c.b) ELSE @,
                     ![p].at = IF c.i >= 0 THEN "lock" ELSE "done"]
    /\ UNCHANGED <<ds, randSrc, randSrcMutex, pc, req, w0, w, calls, newToken, client,
                   faithful, call, test>>

\* the caller has the result; the goroutine is free for another call
Reap(p) ==
    /\ inv[p].at = "done"
    /\ inv' = [inv EXCEPT ![p] = IdleInvocation]
    /\ UNCHANGED <<ds, randSrc, randSrcMutex, pc, req, w0, w, calls, newToken, client,
                   faithful, call, test>>

NextGen ==
    \/ \E p \in Invocations :
           /\ inv[p].at = "idle"
           /\ \E n \in GenLengths : StartGenerate(p, n)
    \/ \E p \in Invocations : Lock(p)
    \/ \E p \in Invocations : Draw(p)
    \/ \E p \in Invocations : Unlock(p)
    \/ \E p \in Invocations : Fill(p)
    \/ \E p \in Invocations : Reap(p)

SpecGen == Init /\ [][NextGen]_vars

\* The goroutines are scheduled: a goroutine that can take its next step takes
\* it, and a goroutine waiting in Lock gets the mutex (sync.Mutex hands the
\* mutex to a waiter that has waited long).  Calls and their collection are
\* the callers' choice.
Running(p) == Draw(p) \/ Unlock(p) \/ Fill(p)

FairGen ==
    \A p \in Invocations :
        /\ SF_vars(Lock(p))
        /\ WF_vars(Running(p))

\* the source as earlier calls may have left it
InitGen ==
    /\ ds = New
    /\ randSrc \in RandSrcStates
    /\ randSrcMutex = 0
    /\ pc = "idle"
    /\ req = NoRequest
    /\ w0 = NewRecorder(<<>>)
    /\ w = NewRecorder(<<>>)
    /\ calls = <<>>
    /\ newToken = <<>>
    /\ client = [jar |-> Absent, hdr |-> [t \in Tabs |-> Absent]]
    /\ faithful = "start"
    /\ call = NoCall
    /\ test = NoTest
    /\ inv = NoInvocations

\* no byte, one byte, the most bytes
EdgeLengths == {0, 1, MaxGen}

\* each goroutine makes one call and keeps its result
NextGenOnce ==
    \/ \E p \in Invocations :
           /\ inv[p].at = "idle"
           /\ \E n \in EdgeLengths : StartGenerate(p, n)
    \/ \E p \in Invocations : Lock(p)
    \/ \E p \in Invocations : Draw(p)
    \/ \E p \in Invocations : Unlock(p)
    \/ \E p \in Invocations : Fill(p)

SpecGenFair == InitGen /\ [][NextGenOnce]_vars /\ FairGen

\* lengths around the number of slices of one value: one value can do, a
\* second is needed, a third is needed
DrawLengths == {0, 1, letterIdxMax, letterIdxMax + 1, 2 * letterIdxMax + 1}

\* each goroutine makes one call, of a length that may need several values
NextDraws ==
    \/ \E p \in Invocations :
           /\ inv[p].at = "idle"
           /\ \E n \in DrawLengths : StartGenerate(p, n)
    \/ \E p \in Invocations : Lock(p)
    \/ \E p \in Invocations : Draw(p)
    \/ \E p \in Invocations : Unlock(p)
    \/ \E p \in Invocations : Fill(p)

SpecDraws == InitGen /\ [][NextDraws]_vars

(***************************************************************************)
(* Concurrent invocations of ServeHTTP on one guard, while the application *)
(* calls the guard's setters.  An invocation is split where it reads the   *)
(* guard:                                                                  *)
(*   "generate"  entered, before newToken := generateToken(tokenLen)       *)
(*   "validate"  the token generated, before the checks (which read        *)
(*               ds.err) and the writes to the response (which read        *)
(*               ds.secure)                                                *)
(*   "done"      returned                                                  *)
(* The setters take no lock and ServeHTTP takes none to read the guard: a   *)
(* read that races with a setter may return the value written or an older   *)
(* one.  ds0 records the guard as it was when the invocation was entered    *)
(* and seen the values the guard has held since, which are the values a     *)
(* read by the invocation may return.                                       *)
(***************************************************************************)
ConcMethods == {"GET", "POST"}

ConcValues == {Absent, Present(ForgedA)}

\* the host calls ds.ServeHTTP(w, r) on a goroutine of its own; the request
\* carries the header value ForgedA and the cookie c
Enter(p, m, c) ==
    /\ inv[p].at = "idle"
    /\ inv' = [inv EXCEPT ![p] =
                  [IdleInvocation EXCEPT
                      !.at = "generate", !.kind = "ServeHTTP", !.n = tokenLen,
                      !.ds0 = ds, !.seen = {ds},
                      !.r = [Method |-> m, Header |-> Present(ForgedA), Cookie |-> c,
                             tab |-> "A"]]]
    /\ UNCHANGED <<ds, randSrc, randSrcMutex, pc, req, w0, w, calls, newToken, client,
                   faithful, call, test>>

\* variant: no token is generated before the checks
Generate_notYet(p) ==
    /\ inv[p].at = "generate"
    /\ randSrcMutex = 0
    /\ inv' = [inv EXCEPT ![p].at = "validate"]
    /\ UNCHANGED <<ds, randSrc, randSrcMutex, pc, req, w0, w, calls, newToken, client,
                   faithful, call, test>>

\* newToken := generateToken(tokenLen)
Generate(p) ==
    /\ inv[p].at = "generate"
    /\ randSrcMutex = 0
    /\ LET g == NewTokenAt[randSrc]
       IN /\ randSrc' = g.src
          /\ inv' = [inv EXCEPT ![p].at = "validate", ![p].token = g.token]
    /\ UNCHANGED <<ds, randSrcMutex, pc, req, w0, w, calls, newToken, client,
                   faithful, call, test>>

\* variant: the checks and writes use the guard as New built it
Finish_asConstructed(p) ==
    /\ inv[p].at = "validate"
    /\ LET res == Validate(New, [token |-> inv[p].token, src |-> randSrc],
                           inv[p].r, inv[p].wr)
       IN inv' = [inv EXCEPT ![p].at = "done", ![p].wr = res.w, ![p].calls = res.calls,
                             ![p].seen = {}]
    /\ UNCHANGED <<ds, randSrc, randSrcMutex, pc, req, w0, w, calls, newToken, client,
                   faithful, call, test>>

\* ServeHTTP from line 62 on; d is the guard as the reads of ds.err and
\* ds.secure find it
Finish(p) ==
    /\ inv[p].at = "validate"
    /\ \E d \in inv[p].seen :
           LET res == Validate(d, [token |-> inv[p].token, src |-> randSrc],
                               inv[p].r, inv[p].wr)
           IN inv' = [inv EXCEPT ![p].at = "done", ![p].wr = res.w,
                                 ![p].calls = res.calls, ![p].seen = {}]
    /\ UNCHANGED <<ds, randSrc, randSrcMutex, pc, req, w0, w, calls, newToken, client,
                   faithful, call, test>>

\* the invocations in progress may from now on read d
Written(d) ==
    [p \in Invocations |->
        IF inv[p].at \in {"generate", "validate"}
        THEN [inv[p] EXCEPT !.seen = @ \cup {d}]
        ELSE inv[p]]

\* the application calls ds.SetSecure(st) on a goroutine of its own
ConcSetSecure(st) ==
    /\ ds' = [ds EXCEPT !.secure = st]
    /\ inv' = Written(ds')
    /\ UNCHANGED <<randSrc, randSrcMutex, pc, req, w0, w, calls, newToken, client,
                   faithful, call, test>>

\* the application calls ds.SetErrHandler(h) on a goroutine of its own
ConcSetErrHandler(h) ==
    /\ ds' = [ds EXCEPT !.err = h]
    /\ inv' = Written(ds')
    /\ UNCHANGED <<randSrc, randSrcMutex, pc, req, w0, w, calls, newToken, client,
                   faithful, call, test>>

\* each goroutine serves one request and keeps the response
NextServe ==
    \/ \E p \in Invocations :
           /\ inv[p].at = "idle"
           /\ \E m \in ConcMethods, c \in ConcValues : Enter(p, m, c)
    \/ \E p \in Invocations : Generate(p)
    \/ \E p \in Invocations : Finish(p)
    \/ \E st \in BOOLEAN : ConcSetSecure(st)
    \/ \E h \in ErrorHandlers : ConcSetErrHandler(h)

SpecServe == Init /\ [][NextServe]_vars

(***************************************************************************)
(* ServeHTTP statement by statement.  After "generate" and "validate":     *)
(*   "header"  the checks passed or were skipped, before                   *)
(*             w.Header().Set(headerName, newToken)                        *)
(*   "cookie"  before http.SetCookie                                       *)
(*   "vary"    before w.Header().Add("Vary", "Cookie")                     *)
(*   "next"    before ds.next.ServeHTTP(w, r)                              *)
(* arg is the response writer as the handler called received it.           *)
(***************************************************************************)
\* variant: ServeHTTP goes on after it has called ds.err
CheckTokens_noReturn(p) ==
    /\ inv[p].at = "validate"
    /\ LET r           == inv[p].r
           headerToken == HeaderGet(r)
           bad         == /\ ~isSafe(r.Method)
                          /\ \/ headerToken = <<>>
                             \/ ~r.Cookie.present
                             \/ ~isEqual(headerToken, r.Cookie.value)
       IN IF bad
          THEN inv' = [inv EXCEPT
                          ![p].at = "header",
                          ![p].arg = inv[p].wr,
                          ![p].wr = CallErr(ds, inv[p].wr, ErrInvalidToken),
                          ![p].calls = Append(@, [fn |-> "err", h |-> ds.err,
                                                  reason |-> ErrInvalidToken])]
          ELSE inv' = [inv EXCEPT ![p].at = "header"]
    /\ UNCHANGED <<ds, randSrc, randSrcMutex, pc, req, w0, w, calls, newToken, client,
                   faithful, call, test>>

\* the checks of lines 62-79: on failure ds.err is called and ServeHTTP returns
CheckTokens(p) ==
    /\ inv[p].at = "validate"
    /\ LET r           == inv[p].r
           headerToken == HeaderGet(r)
           bad         == /\ ~isSafe(r.Method)
                          /\ \/ headerToken = <<>>
                             \/ ~r.Cookie.present
                             \/ ~isEqual(headerToken, r.Cookie.value)
       IN IF bad
          THEN inv' = [inv EXCEPT
                          ![p].at = "done",
                          ![p].arg = inv[p].wr,
                          ![p].wr = CallErr(ds, inv[p].wr, ErrInvalidToken),
                          ![p].calls = Append(@, [fn |-> "err", h |-> ds.err,
                                                  reason |-> ErrInvalidToken])]
          ELSE inv' = [inv EXCEPT ![p].at = "header"]
    /\ UNCHANGED <<ds, randSrc, randSrcMutex, pc, req, w0, w, calls, newToken, client,
                   faithful, call, test>>

\* w.Header().Set(headerName, newToken)
SetTokenHeader(p) ==
    /\ inv[p].at = "header"
    /\ inv' = [inv EXCEPT ![p].at = "cookie",
                          ![p].wr = HeaderSet(@, headerName, inv[p].token)]
    /\ UNCHANGED <<ds, randSrc, randSrcMutex, pc, req, w0, w, calls, newToken, client,
                   faithful, call, test>>

\* http.SetCookie(w, &http.Cookie{...})
SetTokenCookie(p) ==
    /\ inv[p].at = "cookie"
    /\ inv' = [inv EXCEPT ![p].at = "vary",
                          ![p].wr = SetCookie(@, [Name     |-> headerName,
                                                  Value    |-> inv[p].token,
                                                  MaxAge   |-> expiration * 60,
                                                  HttpOnly |-> TRUE,
                                                  Secure   |-> ds.secure])]
    /\ UNCHANGED <<ds, randSrc, randSrcMutex, pc, req, w0, w, calls, newToken, client,
                   faithful, call, test>>

\* variant: the downstream handler is called before Vary is added
AddVary_afterNext(p) ==
    /\ inv[p].at = "vary"
    /\ inv' = [inv EXCEPT
                  ![p].at = "done",
                  ![p].arg = inv[p].wr,
                  ![p].wr = HeaderAdd(NextServeHTTP(@), "Vary", "Cookie"),
                  ![p].calls = Append(@, [fn |-> "next", h |-> "next", reason |-> ""])]
    /\ UNCHANGED <<ds, randSrc, randSrcMutex, pc, req, w0, w, calls, newToken, client,
                   faithful, call, test>>

\* w.Header().Add("Vary", "Cookie")
AddVary(p) ==
    /\ inv[p].at = "vary"
    /\ inv' = [inv EXCEPT ![p].at = "next",
                          ![p].wr = HeaderAdd(@, "Vary", "Cookie")]
    /\ UNCHANGED <<ds, randSrc, randSrcMutex, pc, req, w0, w, calls, newToken, client,
                   faithful, call, test>>

\* ds.next.ServeHTTP(w, r)
CallNext(p) ==
    /\ inv[p].at = "next"
    /\ inv' = [inv EXCEPT
                  ![p].at = "done",
                  ![p].arg = inv[p].wr,
                  ![p].wr = NextServeHTTP(@),
                  ![p].calls = Append(@, [fn |-> "next", h |-> "next", reason |-> ""])]
    /\ UNCHANGED <<ds, randSrc, randSrcMutex, pc, req, w0, w, calls, newToken, client,
                   faithful, call, test>>

NextSteps ==
    \/ \E p \in Invocations :
           /\ inv[p].at = "idle"
           /\ \E m \in ConcMethods, c \in ConcValues : Enter(p, m, c)
    \/ \E p \in Invocations : Generate(p)
    \/ \E p \in Invocations : CheckTokens(p)
    \/ \E p \in Invocations : SetTokenHeader(p)
    \/ \E p \in Invocations : SetTokenCookie(p)
    \/ \E p \in Invocations : AddVary(p)
    \/ \E p \in Invocations : CallNext(p)
    \/ \E p \in Invocations : Reap(p)

SpecSteps == Init /\ [][NextSteps]_vars

(***************************************************************************)
(* Properties                                                              *)
(***************************************************************************)
Served == pc = "served"

Forwarded == calls = << [fn |-> "next", h |-> "next", reason |-> ""] >>

Rejected == calls = << [fn |-> "err", h |-> ds.err, reason |-> ErrInvalidToken] >>

Unsafe == req.Method \notin SafeMethods

\* the header is absent or empty, or there is no cookie, or the two values differ
BadPair ==
    \/ ~req.Header.present
    \/ req.Header.value = <<>>
    \/ ~req.Cookie.present
    \/ req.Header.value # req.Cookie.value

\* the response wr carries tok as the X-CSRF-Token header and as the value of the
\* X-CSRF-Token cookie
CarriesToken(wr, tok) ==
    /\ tok # <<>>
    /\ wr.Header[headerName] = <<tok>>
    /\ Len(wr.Header["Set-Cookie"]) = 1
    /\ wr.Header["Set-Cookie"][1].Name = headerName
    /\ wr.Header["Set-Cookie"][1].Value = tok

CarriesNoToken(wr) ==
    /\ wr.Header[headerName] = <<>>
    /\ wr.Header["Set-Cookie"] = <<>>

\* a step of ServeHTTP
ServeStep == pc = "pending" /\ pc' = "served"

\* C1: an unsafe request whose header is absent or empty, or that has no cookie,
\* or whose header and cookie differ, is handed to the configured error handler
\* with ErrInvalidToken, and the downstream handler is not invoked.
C1_RejectsBadUnsafe ==
    (Served /\ Unsafe /\ BadPair) => Rejected

C1_Witness ==
    /\ Served /\ req.Method = "POST"
    /\ req.Header = Present(ForgedA) /\ req.Cookie = Present(ForgedB)
    /\ Rejected /\ ds.err = "TestErrorHandler"

\* C2: an unsafe request with equal, non-empty header and cookie values is
\* forwarded to the downstream handler, and the response carries the one token
\* generated from the source in this invocation as header and as cookie value.
C2_ForwardsEqualPair ==
    [][ ( /\ ServeStep /\ Unsafe
          /\ req.Header.present /\ req.Cookie.present
          /\ req.Header.value = req.Cookie.value /\ req.Header.value # <<>> )
        => ( /\ calls' = << [fn |-> "next", h |-> "next", reason |-> ""] >>
             /\ CarriesToken(w', generateToken(tokenLen, randSrc).token) ) ]_vars

C2_Witness ==
    /\ Served /\ req.Method = "DELETE"
    /\ req.Header = Present(ForgedA) /\ req.Cookie = Present(ForgedA)
    /\ Forwarded /\ CarriesToken(w, newToken)

\* C3: a request with a safe method is never rejected, whatever its header and
\* cookie: the downstream handler is invoked and the response carries the token
\* generated in this invocation as header and as cookie value.
C3_SafeAlwaysForwarded ==
    [][ (ServeStep /\ req.Method \in SafeMethods)
        => ( /\ calls' = << [fn |-> "next", h |-> "next", reason |-> ""] >>
             /\ CarriesToken(w', generateToken(tokenLen, randSrc).token) ) ]_vars

C3_Witness ==
    /\ Served /\ req.Method = "TRACE"
    /\ req.Header = Present(ForgedA) /\ req.Cookie = Present(ForgedB)
    /\ Forwarded /\ CarriesToken(w, newToken)

C5_FaithfulEchoForwarded ==
    (Served /\ faithful = "yes") => Forwarded

C5_Witness ==
    /\ Served /\ faithful = "yes" /\ req.Method = "POST" /\ Forwarded
    /\ req.Header.value # newToken

\* C6: the outcome of a request is the same whatever the guard's configuration
\* and the state of the random source, and an equal non-empty pair is accepted
\* also when the guard can never have issued the value.
Guards == [secure : BOOLEAN, err : ErrorHandlers]

IssuableTokens == {NewTokenAt[s].token : s \in RandSrcStates}

C6_OutcomeDependsOnRequestOnly ==
    Served =>
        /\ \A d2 \in Guards, s2 \in RandSrcStates :
               ServeHTTPResult(d2, s2, req, w0).calls[1].fn = calls[1].fn
        /\ ( /\ Unsafe /\ req.Header.present /\ req.Cookie.present
             /\ req.Header.value = req.Cookie.value /\ req.Header.value # <<>>
             /\ req.Header.value \notin IssuableTokens ) => Forwarded

C6_Witness ==
    /\ Served /\ req.Method = "POST"
    /\ req.Header = Present(ForgedA) /\ req.Cookie = Present(ForgedA)
    /\ ForgedA \notin IssuableTokens
    /\ client.jar.present
    /\ Forwarded

C8_IsEqualIffIdentical ==
    call.fn = "isEqual" => (call.ret <=> call.a = call.b)

C8_Witness ==
    /\ call.fn = "isEqual"
    /\ Len(call.a) = Len(call.b) /\ Len(call.a) > 1
    /\ SubSeq(call.a, 1, Len(call.a) - 1) = SubSeq(call.b, 1, Len(call.b) - 1)
    /\ call.a # call.b
    /\ ~call.ret

\* C9: isSafe(method) is true exactly for "GET", "HEAD", "OPTIONS" and "TRACE".
C9_IsSafeExactlyFour ==
    call.fn = "isSafe" => (call.ret <=> call.method \in SafeMethods)

C9_Witness ==
    call.fn = "isSafe" /\ call.method = "CONNECT" /\ ~call.ret

C11_StaleTabRejected ==
    (Served /\ Unsafe) =>
        /\ req.Header = client.hdr[req.tab] /\ req.Cookie = client.jar
        /\ Forwarded <=> (client.jar.present /\ client.hdr[req.tab] = client.jar)
        /\ (client.hdr[req.tab].present /\ client.hdr[req.tab] # client.jar) => Rejected

C11_Witness ==
    /\ Served /\ req.tab = "B" /\ req.Method = "POST"
    /\ client.hdr["B"].present /\ client.jar.present
    /\ client.hdr["A"] = client.jar
    /\ client.hdr["B"] # client.jar
    /\ req.Header = client.hdr["B"] /\ req.Cookie = client.jar
    /\ Rejected

\* C12: a response that reaches the rotation step has a Vary header whose last
\* value is Cookie, appended after all the Vary values the response had when
\* ServeHTTP was called.
C12_VaryCookieAppended ==
    (Served /\ Forwarded) =>
        /\ \E k \in 1..Len(w.Header["Vary"]) : w.Header["Vary"][k] = "Cookie"
        /\ w.Header["Vary"] = w0.Header["Vary"] \o <<"Cookie">>

C12_Witness ==
    /\ Served /\ Forwarded /\ req.Method = "POST"
    /\ w0.Header["Vary"] = <<"Accept-Encoding">>
    /\ w.Header["Vary"] = <<"Accept-Encoding", "Cookie">>

\* C16: a rejection is handled by the error handler the guard holds at that
\* time: the default one, when no other was set, answers 403 with the text line
\* "Forbidden - invalid token"; a handler set with SetErrHandler is the one
\* invoked, and the default one is not.
C16_ErrHandlerInForce ==
    (Served /\ Len(calls) > 0 /\ calls[1].fn = "err") =>
        /\ calls = << [fn |-> "err", h |-> ds.err, reason |-> ErrInvalidToken] >>
        /\ ds.err = "unauthorizedHandler" =>
               /\ w.Code = StatusForbidden
               /\ w.Body = << "Forbidden - invalid token\n" >>
               /\ w.Header["Content-Type"] = << "text/plain; charset=utf-8" >>
        /\ ds.err = "TestErrorHandler" =>
               /\ w.Code = StatusForbidden
               /\ w.Body = << errHandlerOutput >>
               /\ w.Header["Content-Type"] = <<>>

C16_Witness ==
    /\ Served /\ Rejected /\ ds.err = "TestErrorHandler"
    /\ w.Code = StatusForbidden
    /\ w.Body = << errHandlerOutput >>

\* C14: after parseOptions each field holds what the last option naming it
\* stores (MaxAge the minutes times 60, the others their argument), a field no
\* option names holds the value parseOptions starts with (Secure true, the
\* zero value otherwise), and the downstream handler is the one given.
OptionFields == {"MaxAge", "Domain", "Secure", "ErrHandler", "RequestHeader", "CookieName"}

LastSetting(os, f) ==
    LET idx == {k \in 1..Len(os) : os[k].name = f}
        last == CHOOSE k \in idx : \A j \in idx : j <= k
    IN IF idx = {} THEN (IF f = "Secure" THEN TRUE ELSE ZeroOptions[f])
       ELSE IF f = "MaxAge" THEN 60 * os[last].arg
       ELSE os[last].arg

Configured(os, f) ==
    LET v == LastSetting(os, f)
    IN CASE f = "MaxAge"        -> IF v = 0 THEN 3600 ELSE v
         [] f = "ErrHandler"    -> IF v = "nil" THEN "unauthorizedHandler" ELSE v
         [] f = "RequestHeader" -> IF v = "" THEN "X-CSRF-Token" ELSE v
         [] f = "CookieName"    -> IF v = "" THEN "X-CSRF-Token" ELSE v
         [] OTHER               -> v

IssuedCookie == w.Header["Set-Cookie"][1]

\* C13: a guard built from options serves with the configured values: on a
\* forwarded request the one Set-Cookie has the configured name, domain and age
\* in seconds (nameoverride, the domain given and 2100 for the options of
\* TestCookieOptions) and the token is emitted under the configured header
\* name; an unsafe request is forwarded exactly when the header of the
\* configured name and the cookie of the configured name are equal and not empty.
C13_OverridesObserved ==
    (Served /\ call.fn = "Middleware") =>
        LET hn == Configured(call.opts, "RequestHeader")
            cn == Configured(call.opts, "CookieName")
        IN /\ Forwarded =>
                /\ Len(w.Header["Set-Cookie"]) = 1
                /\ IssuedCookie.Name = cn
                /\ IssuedCookie.Domain = Configured(call.opts, "Domain")
                /\ IssuedCookie.MaxAge = Configured(call.opts, "MaxAge")
                /\ IssuedCookie.Value = newToken
                /\ newToken # <<>>
                /\ w.Header[hn] = <<newToken>>
                /\ \A n \in HeaderNames \ {hn} : w.Header[n] = <<>>
                /\ call.opts = CookieOptionsConfig =>
                       /\ IssuedCookie.Name = "nameoverride"
                       /\ IssuedCookie.Domain = "domainoverride"
                       /\ IssuedCookie.MaxAge = 2100
           /\ Unsafe =>
                (Forwarded <=> /\ req.Header[hn].present /\ req.Cookie[cn].present
                               /\ req.Header[hn].value # <<>>
                               /\ req.Header[hn].value = req.Cookie[cn].value)

C13_Witness ==
    /\ Served /\ call.fn = "Middleware" /\ call.opts = CookieOptionsConfig
    /\ req.Method = "POST" /\ Forwarded
    /\ req.Cookie["nameoverride"] = Present(ForgedA)
    /\ IssuedCookie.Name = "nameoverride"
    /\ IssuedCookie.Domain = "domainoverride"
    /\ IssuedCookie.MaxAge = 2100

\* C15 as stated: a guard to which no Secure setting was supplied issues its
\* cookie with Secure set, and every cookie issued has HttpOnly set.
SecureSupplied == \E k \in 1..Len(call.opts) : call.opts[k].name = "Secure"

Drawing(p) == inv[p].at \in {"draw", "unlock"}

C17_DrawsSerialized ==
    /\ \A p, q \in Invocations : Drawing(p) /\ Drawing(q) => p = q
    /\ \A p \in Invocations : Drawing(p) => randSrcMutex = p

\* one invocation is about to draw while the other waits for the mutex
C17_Witness ==
    \E p, q \in Invocations :
        /\ inv[p].at = "draw"
        /\ randSrcMutex = p
        /\ inv[q].at = "lock"

\* C18: randSrcMutex is held only across one draw: an invocation that holds
\* it is between Lock and Unlock, so none holds it while it slices the value
\* drawn and writes bytes (Fill) or at any other position.
C18_LockOnlyAcrossDraw ==
    \A p \in Invocations : randSrcMutex = p => Drawing(p)

\* the second invocation has drawn while the first, which has already written
\* some of its bytes and drawn again, has still to fill the rest
C18_Witness ==
    \E p, q \in Invocations :
        /\ inv[p].at = "fill"
        /\ 0 <= inv[p].i /\ inv[p].i < inv[p].n - 1
        /\ inv[q].at = "unlock"
        /\ randSrcMutex = q

\* C20: every call generateToken(n), n >= 0, returns; the array returned has
\* n bytes, and the token is empty exactly when n = 0.
C20_Returned ==
    \A p \in Invocations :
        inv[p].at = "done" =>
            /\ Len(inv[p].b) = inv[p].n
            /\ inv[p].n = 0 <=> inv[p].token = <<>>

C20_TerminatesAndEmptyOnlyForZero ==
    /\ []C20_Returned
    /\ \A p \in Invocations : (inv[p].at = "lock") ~> (inv[p].at = "done")

\* a call with n = 0 has returned the empty token and a call with the
\* greatest n has returned a token
C20_Witness ==
    \E p, q \in Invocations :
        /\ inv[p].at = "done" /\ inv[p].n = 0 /\ inv[p].token = <<>>
        /\ inv[q].at = "done" /\ inv[q].n = MaxGen /\ inv[q].token # <<>>

Observed(i) ==
    [fn     |-> i.calls[1].fn,
     h      |-> i.calls[1].h,
     secure |-> IF i.calls[1].fn = "next" THEN i.wr.Header["Set-Cookie"][1].Secure
                ELSE FALSE]

ObservedOf(d, i) ==
    [fn     |-> i.calls[1].fn,
     h      |-> IF i.calls[1].fn = "next" THEN "next" ELSE d.err,
     secure |-> IF i.calls[1].fn = "next" THEN d.secure ELSE FALSE]

Letters == (97..122) \cup (65..90)

C21_ExactlyNLetters ==
    \A p \in Invocations :
        inv[p].kind = "generateToken" =>
            /\ Len(inv[p].b) = inv[p].n
            /\ \A k \in 1..inv[p].n :
                   IF k > inv[p].i + 1 THEN inv[p].b[k] \in Letters ELSE inv[p].b[k] = 0
            /\ inv[p].at = "done" => inv[p].i = -1

\* a call for the greatest n has returned Z and A in its last two positions:
\* the slices 52 and 63 between the slices 51 and 26 were discarded
C21_Witness ==
    \E p \in Invocations :
        /\ inv[p].at = "done"
        /\ inv[p].n = MaxGen
        /\ inv[p].b[MaxGen] = 90
        /\ inv[p].b[MaxGen - 1] = 65

\* C22: when the downstream handler is called, the response writer it
\* receives already has the new token as X-CSRF-Token header and as cookie
\* value and Cookie among its Vary values, and nothing of the response has
\* been sent yet; what the handler writes comes after.
C22_TokenWrittenBeforeNext ==
    \A p \in Invocations :
        (inv[p].calls # <<>> /\ inv[p].calls[1].fn = "next") =>
            /\ CarriesToken(inv[p].arg, inv[p].token)
            /\ inv[p].arg.Header["Vary"] = <<"Cookie">>
            /\ inv[p].arg.Code = 0
            /\ inv[p].arg.Body = <<>>
            /\ inv[p].wr = NextServeHTTP(inv[p].arg)

\* a validated POST has been forwarded: the handler received the token and
\* has written its output
C22_Witness ==
    \E p \in Invocations :
        /\ inv[p].at = "done"
        /\ inv[p].r.Method = "POST"
        /\ inv[p].calls = << [fn |-> "next", h |-> "next", reason |-> ""] >>
        /\ CarriesToken(inv[p].arg, inv[p].token)
        /\ inv[p].wr.Body = << testHandlerOutput >>

\* C24: an invocation of ServeHTTP that has returned has made one handler
\* call, of the error handler or of the downstream handler, and an invocation
\* that has not returned yet has made none.
C24_ExactlyOneHandlerOnce ==
    \A p \in Invocations :
        inv[p].kind = "ServeHTTP" =>
            IF inv[p].at = "done"
            THEN \/ inv[p].calls = << [fn |-> "err", h |-> ds.err, reason |-> ErrInvalidToken] >>
                 \/ inv[p].calls = << [fn |-> "next", h |-> "next", reason |-> ""] >>
            ELSE inv[p].calls = <<>>

\* one invocation has returned from the error handler and the other from the
\* downstream handler
C24_Witness ==
    \E p, q \in Invocations :
        /\ inv[p].at = "done" /\ inv[p].calls[1].fn = "err" /\ Len(inv[p].calls) = 1
        /\ inv[q].at = "done" /\ inv[q].calls[1].fn = "next" /\ Len(inv[q].calls) = 1

\* an invocation of ServeHTTP that has called the error handler
RejectedBy(p) == inv[p].calls # <<>> /\ inv[p].calls[1].fn = "err"

\* C23 as stated: an invocation has no token before its checks have passed
\* or were skipped, and an invocation that rejects its request has none.
C23_TokenOnlyWhenForwarding ==
    \A p \in Invocations :
        (inv[p].kind = "ServeHTTP" /\ (inv[p].at = "validate" \/ RejectedBy(p)))
            => inv[p].token = <<>>

\* C23 as amended: every invocation generates its token on entry, before the
\* checks: the step draws the token from the shared source, which it leaves
\* in the state after that generation, and no later step of the invocation
\* touches the source; an invocation that rejects its request has generated
\* a token, which is nowhere in the response.
C23_TokenGeneratedOnEntry ==
    /\ [](\A p \in Invocations :
              inv[p].kind = "ServeHTTP" =>
                  /\ inv[p].at = "generate" <=> inv[p].token = <<>>
                  /\ RejectedBy(p) => CarriesNoToken(inv[p].wr))
    /\ [][\A p \in Invocations :
              (inv[p].kind = "ServeHTTP" /\ inv'[p] # inv[p]) =>
                  IF inv[p].at = "generate"
                  THEN /\ inv'[p].token = NewTokenAt[randSrc].token
                       /\ randSrc' = NewTokenAt[randSrc].src
                  ELSE randSrc' = randSrc]_vars

\* a POST without cookie has been rejected: the invocation holds the token
\* it generated and the response has none
C23_Witness ==
    \E p \in Invocations :
        /\ inv[p].at = "done"
        /\ inv[p].r.Method = "POST"
        /\ RejectedBy(p)
        /\ Len(inv[p].token) > 0
        /\ CarriesNoToken(inv[p].wr)

\* where the invocations stand with respect to randSrcMutex: none waits for
\* the mutex while holding it, the mutex is free when none is between Lock
\* and Unlock, and when one waits, the mutex is free or its holder can step
C25_LockStanding ==
    /\ \A p \in Invocations : inv[p].at = "lock" => randSrcMutex # p
    /\ (\A p \in Invocations : ~Drawing(p)) => randSrcMutex = 0
    /\ (\E p \in Invocations : inv[p].at = "lock") =>
           \/ randSrcMutex = 0
           \/ \E q \in Invocations : randSrcMutex = q /\ Drawing(q)

\* the steps of the holder of the mutex: the draw, then the release
C25_HolderStep ==
    \A p \in Invocations :
        (randSrcMutex = p /\ inv'[p] # inv[p]) =>
            \/ inv[p].at = "draw" /\ inv'[p].at = "unlock" /\ randSrcMutex' = p
            \/ inv[p].at = "unlock" /\ inv'[p].at = "fill" /\ randSrcMutex' = 0

\* C25: the holder of randSrcMutex draws and then releases it, before any
\* other step; no invocation waits for the mutex while holding it; the mutex
\* is free when no invocation is between Lock and Unlock; a waiting
\* invocation is never stuck; and, the goroutines being scheduled fairly, an
\* invocation that waits for the mutex obtains it.
C25_LockReleasedAndObtained ==
    /\ []C25_LockStanding
    /\ [][C25_HolderStep]_vars
    /\ \A p \in Invocations : (inv[p].at = "lock") ~> (inv[p].at = "draw")

\* an invocation that has written a byte waits for the mutex again while the
\* other, which has just drawn, holds it
C25_Witness ==
    \E p, q \in Invocations :
        /\ inv[p].at = "lock"
        /\ inv[p].i < inv[p].n - 1
        /\ inv[q].at = "unlock"
        /\ randSrcMutex = q

\* bytes the call has written so far
WrittenBytes(p) == inv[p].n - 1 - inv[p].i

\* where a call stands with respect to the values it has drawn: at most
\* letterIdxMax slices of a value are left to consume, the bytes written are
\* at most letterIdxMax for each value drawn, and a call that waits for
\* another value has consumed all the slices of the current one and has
\* positions left
C26_DrawsStanding ==
    \A p \in Invocations :
        inv[p].kind = "generateToken" =>
            /\ 0 <= inv[p].remain /\ inv[p].remain <= letterIdxMax
            /\ WrittenBytes(p) <= letterIdxMax * inv[p].draws
            /\ (inv[p].at = "lock" /\ inv[p].draws > 0) =>
                   inv[p].remain = 0 /\ inv[p].i >= 0
            /\ inv[p].at = "done" => inv[p].draws >= 1

\* a run of the loop on one value: it consumes at most letterIdxMax slices and
\* writes at most one byte for each; it goes for another value exactly when
\* the slices are used up and positions remain, and returns otherwise
C26_SlicingStep ==
    \A p \in Invocations :
        (inv[p].at = "fill" /\ inv'[p].at # "fill") =>
            /\ inv[p].i - inv'[p].i <= inv[p].remain - inv'[p].remain
            /\ inv[p].remain - inv'[p].remain <= letterIdxMax
            /\ inv'[p].at = "lock" <=> (inv'[p].remain = 0 /\ inv'[p].i >= 0)
            /\ inv'[p].at = "done" <=> inv'[p].i < 0
            /\ inv'[p].draws = inv[p].draws

\* C26: each value drawn is consumed in at most 10 slices of 6 bits and gives
\* at most 10 bytes; after the first value, a value is drawn exactly when the
\* 10 slices of the current one are consumed and positions remain; so n
\* bytes take at least n/10 draws, rounded up.
C26_TenSlicesPerDraw ==
    /\ []C26_DrawsStanding
    /\ [][C26_SlicingStep]_vars

\* a call for 10 bytes has returned after one draw, all slices consumed, and
\* a call for 11 bytes after two
C26_Witness ==
    \E p, q \in Invocations :
        /\ inv[p].at = "done" /\ inv[p].n = letterIdxMax
        /\ inv[p].draws = 1 /\ inv[p].remain = 0
        /\ inv[q].at = "done" /\ inv[q].n = letterIdxMax + 1
        /\ inv[q].draws = 2
====
